---- MODULE Spec2Model ----
(***************************************************************************)
(* Span composition and text rewriting of the zGrid services:              *)
(*   pii_service/utils.py   merge_spans, apply_redactions                   *)
(*   tox_service/utils.py   sentences_with_offsets, join_preserving_spacing,*)
(*                          redact_ranges                                   *)
(*   tox_service/profanity.py  detect_and_apply                             *)
(*   tox_service/app.py     validate                                        *)
(* Strings are sequences of one-character strings; offsets are Python      *)
(* offsets (0-based, half-open).                                           *)
(***************************************************************************)
EXTENDS Integers, Sequences, FiniteSets, TLC

VARIABLES
    pc,              \* position of the running call
    op,              \* the function or handler that was called
    text,            \* the text argument
    presidio_spans,  \* merge_spans: the first list (dicts, with their _src key)
    gliner_spans,    \* merge_spans: the second list
    spans,           \* merge_spans: the sorted working list (references)
    merged,          \* merge_spans: the accepted list (references)
    cursor,          \* merge_spans: position of the for loop in spans
    lastStep,        \* merge_spans: what the latest loop iteration did
    arg,             \* the other arguments of the call (a record)
    result           \* what the call returned or raised

vars == << pc, op, text, presidio_spans, gliner_spans, spans, merged, cursor,
           lastStep, arg, result >>

(***************************************************************************)
(* Bounds of the model.                                                    *)
(***************************************************************************)
MaxPos == 2        \* merge_spans: offsets range over 0..MaxPos
MaxSpans == 3      \* merge_spans: spans in the two lists together
MaxWidePos == 4    \* merge_spans on wider texts: offsets range over 0..MaxWidePos
MaxPairSpans == 2  \* merge_spans on wider texts: spans in the two lists together
MaxLen == 3        \* reconstructors: texts have at most MaxLen characters
MaxRSpans == 2     \* reconstructors: spans or ranges in one call
MaxDiffLen == 4    \* detect_and_apply: texts have at most MaxDiffLen characters
MaxReqLen == 3     \* validate: request texts have at most MaxReqLen characters
MaxSents == 2      \* the tokenizer returns at most MaxSents sentences
MaxSentLen == 2    \* sentences_with_offsets: a sentence has at most MaxSentLen characters

NoStep == [kind |-> "none", cand |-> 0, last |-> 0]
NoArg == [none |-> TRUE]
NoResult == [raised |-> FALSE, value |-> << >>]

(***************************************************************************)
(* Sequences and Python slicing.                                           *)
(***************************************************************************)
SeqsUpTo(S, n) == UNION { [1..k -> S] : k \in 0..n }

\* Python: how a slice bound k is read against a sequence of length n.
SliceIndex(k, n) ==
    IF k < 0 THEN (IF k + n < 0 THEN 0 ELSE k + n)
    ELSE IF k > n THEN n ELSE k

\* Python: s[i:j]
PySlice(s, i, j) ==
    LET a == SliceIndex(i, Len(s))
        b == SliceIndex(j, Len(s))
    IN  IF a >= b THEN << >> ELSE SubSeq(s, a + 1, b)

\* Python: s[i:]
PySliceFrom(s, i) == PySlice(s, i, Len(s))

(***************************************************************************)
(* merge_spans                                                             *)
(***************************************************************************)
\* A span dict: start, end, score and the _src key ("none": the key is absent).
SpanDict(st, en, sc) == [start |-> st, end |-> en, score |-> sc, src |-> "none"]

\* The dict a reference k denotes: presidio_spans + gliner_spans, 1-based.
ObjIn(ps, gs, k) == IF k <= Len(ps) THEN ps[k] ELSE gs[k - Len(ps)]
Obj(k) == ObjIn(presidio_spans, gliner_spans, k)

\* for s in presidio_spans: s["_src"] = "presidio" (and the same for gliner)
TagAll(list, tag) == [k \in DOMAIN list |-> [list[k] EXCEPT !.src = tag]]

\* The sort key (start, -end), compared lexicographically: a's key < b's key.
KeyLess(a, b) == a.start < b.start \/ (a.start = b.start /\ (0 - a.end) < (0 - b.end))

\* list.sort is stable: insert reference k after every element whose key is <= its own.
RECURSIVE InsertSorted(_, _, _, _)
InsertSorted(ps, gs, sorted, k) ==
    IF sorted = << >> THEN << k >>
    ELSE IF KeyLess(ObjIn(ps, gs, k), ObjIn(ps, gs, Head(sorted)))
         THEN << k >> \o sorted
         ELSE << Head(sorted) >> \o InsertSorted(ps, gs, Tail(sorted), k)

RECURSIVE SortRefs(_, _, _)
SortRefs(ps, gs, n) ==
    IF n = 0 THEN << >> ELSE InsertSorted(ps, gs, SortRefs(ps, gs, n - 1), n)

\* Overlap that also holds for two spans that only touch.
OverlapOrTouch(s, last) == s.start <= last.end /\ s.end >= last.start

\* overlap = s["start"] < last["end"] and s["end"] > last["start"]
Overlap(s, last) == s.start < last.end /\ s.end > last.start

\* CurWins without the length comparison: only a higher score swaps.
CurWinsOnScore(s, last) ==
    LET last_len == last.end - last.start
        cur_len == s.end - s.start
    IN  cur_len = last_len /\ s.score > last.score

\* The same-tier rule: the candidate replaces the accepted span.
CurWins(s, last) ==
    LET last_len == last.end - last.start
        cur_len == s.end - s.start
    IN  cur_len > last_len \/ (cur_len = last_len /\ s.score > last.score)

\* What one iteration of the sweep does with candidate s against the list m.
StepKind(m, s) ==
    IF m = << >> THEN "append"
    ELSE LET last == Obj(m[Len(m)])
             cur == Obj(s)
         IN  IF ~Overlap(cur, last) THEN "append"
             ELSE IF last.src = "presidio" /\ cur.src = "gliner" THEN "keep"
             ELSE IF last.src = "gliner" /\ cur.src = "presidio" THEN "replace"
             ELSE IF CurWins(cur, last) THEN "replace" ELSE "keep"

ApplyStep(m, s, kind) ==
    CASE kind = "append" -> Append(m, s)
      [] kind = "replace" -> [m EXCEPT ![Len(m)] = s]
      [] OTHER -> m

\* for s in merged: s.pop("_src", None)
PopTags(list, offset, refs) ==
    [k \in DOMAIN list |->
        IF \E j \in DOMAIN refs : refs[j] = k + offset
        THEN [list[k] EXCEPT !.src = "none"] ELSE list[k]]

\* merge_spans never reads its text argument: only its length matters to the claims.
TextOfLen(n) == [k \in 1..n |-> "a"]

Intervals == { iv \in (0..MaxPos) \X (0..MaxPos) : iv[1] <= iv[2] }
\* A lower and a higher score.
Scores == { 1, 2 }
SpanDicts == { SpanDict(iv[1], iv[2], sc) : iv \in Intervals, sc \in Scores }

InitMerge ==
    /\ pc = "called"
    /\ op = "merge_spans"
    /\ text = TextOfLen(MaxPos)
    /\ \E all \in SeqsUpTo(SpanDicts, MaxSpans) : \E k \in 0..Len(all) :
          /\ presidio_spans = SubSeq(all, 1, k)
          /\ gliner_spans = SubSeq(all, k + 1, Len(all))
    /\ spans = << >>
    /\ merged = << >>
    /\ cursor = 0
    /\ lastStep = NoStep
    /\ arg = NoArg
    /\ result = NoResult

\* merge_spans on a text of MaxWidePos characters: the offsets are wide enough
\* for a candidate that sorts after the accepted span, overlaps it and is longer
\* (accepted [0, 2), candidate [1, 4)).
WideIntervals == { iv \in (0..MaxWidePos) \X (0..MaxWidePos) : iv[1] <= iv[2] }
WideSpanDicts == { SpanDict(iv[1], iv[2], sc) : iv \in WideIntervals, sc \in Scores }

InitMergeWide ==
    /\ pc = "called"
    /\ op = "merge_spans"
    /\ text = TextOfLen(MaxWidePos)
    /\ \E all \in SeqsUpTo(WideSpanDicts, MaxPairSpans) : \E k \in 0..Len(all) :
          /\ presidio_spans = SubSeq(all, 1, k)
          /\ gliner_spans = SubSeq(all, k + 1, Len(all))
    /\ spans = << >>
    /\ merged = << >>
    /\ cursor = 0
    /\ lastStep = NoStep
    /\ arg = NoArg
    /\ result = NoResult

\* Lines 40-45: tag both lists, concatenate, sort, start with nothing accepted.
MergeBegin ==
    /\ pc = "called" /\ op = "merge_spans"
    /\ presidio_spans' = TagAll(presidio_spans, "presidio")
    /\ gliner_spans' = TagAll(gliner_spans, "gliner")
    /\ spans' = SortRefs(presidio_spans, gliner_spans,
                         Len(presidio_spans) + Len(gliner_spans))
    /\ merged' = << >>
    /\ cursor' = 1
    /\ pc' = "sweep"
    /\ UNCHANGED << op, text, lastStep, arg, result >>

\* Lines 47-65: one iteration of the sweep.
MergeSweep ==
    /\ pc = "sweep" /\ cursor <= Len(spans)
    /\ LET s == spans[cursor]
           kind == StepKind(merged, s)
       IN  /\ merged' = ApplyStep(merged, s, kind)
           /\ lastStep' = [kind |-> kind, cand |-> s,
                           last |-> IF merged = << >> THEN 0 ELSE merged[Len(merged)]]
    /\ cursor' = cursor + 1
    /\ UNCHANGED << pc, op, text, presidio_spans, gliner_spans, spans, arg, result >>

\* Lines 67-68: strip the tag from the accepted dicts and return the list.
MergeReturn ==
    /\ pc = "sweep" /\ cursor > Len(spans)
    /\ presidio_spans' = PopTags(presidio_spans, 0, merged)
    /\ gliner_spans' = PopTags(gliner_spans, Len(presidio_spans), merged)
    /\ result' = [raised |-> FALSE,
                  value |-> [j \in DOMAIN merged |->
                               ObjIn(presidio_spans', gliner_spans', merged[j])]]
    /\ pc' = "done"
    /\ UNCHANGED << op, text, spans, merged, cursor, lastStep, arg >>

NextMerge == MergeBegin \/ MergeSweep \/ MergeReturn

SpecMerge == InitMerge /\ [][NextMerge]_vars

SpecMergeWide == InitMergeWide /\ [][NextMerge]_vars

(***************************************************************************)
(* Properties of merge_spans.                                              *)
(***************************************************************************)
\* The input dicts as they were passed in (no _src key).
Untagged(list) == [k \in DOMAIN list |-> [list[k] EXCEPT !.src = "none"]]
Inputs == Untagged(presidio_spans) \o Untagged(gliner_spans)
PresidioRefs == 1..Len(presidio_spans)
GlinerRefs == (Len(presidio_spans) + 1)..(Len(presidio_spans) + Len(gliner_spans))
InMerged(k) == \E j \in DOMAIN merged : merged[j] = k

\* Every span of the list has start < end.
Proper(list) == \A k \in DOMAIN list : list[k].start < list[k].end
\* A span the spec calls malformed for a text of length n.
Malformed(s, n) == s.end <= s.start \/ s.start < 0 \/ s.end > n
\* Sorted ascending by start and pairwise non-overlapping.
SortedDisjoint(r) ==
    \A i, j \in DOMAIN r : i < j => (r[i].start <= r[j].start /\ r[i].end <= r[j].start)
\* The spec's non-overlap of a list: every span ends before the later ones start.
Ordered(r) == \A i, j \in DOMAIN r : i < j => r[i].end <= r[j].start
\* Two spans share a character position.
Intersects(a, b) ==
    \E x \in 0..MaxPos : a.start <= x /\ x < a.end /\ b.start <= x /\ x < b.end
InternallyDisjoint(list) ==
    \A i, j \in DOMAIN list : i # j => ~Intersects(list[i], list[j])

\* C1: for every pair of input lists the returned list is sorted ascending by
\* start and pairwise non-overlapping (result[i].end <= result[j].start, i < j).
C1_MergedSortedDisjoint == pc = "done" => SortedDisjoint(result.value)

\* C1, restricted to inputs whose spans all have start < end: the sweep itself
\* keeps the accepted list sorted and non-overlapping.
MergedSortedDisjointWhenProper ==
    (pc = "done" /\ Proper(Inputs)) => SortedDisjoint(result.value)

\* C2: with each source internally non-overlapping, a presidio span that shares
\* a position with a gliner span is in the output and the gliner span is not.
C2_StructuredBeatsSemantic ==
    (pc = "done" /\ InternallyDisjoint(presidio_spans) /\ InternallyDisjoint(gliner_spans))
    => \A p \in PresidioRefs : \A g \in GlinerRefs :
          Intersects(Obj(p), Obj(g)) => (InMerged(p) /\ ~InMerged(g))

\* C2, restricted to inputs whose spans all have start < end.
StructuredBeatsSemanticWhenProper ==
    (pc = "done" /\ Proper(Inputs)
        /\ InternallyDisjoint(presidio_spans) /\ InternallyDisjoint(gliner_spans))
    => \A p \in PresidioRefs : \A g \in GlinerRefs :
          Intersects(Obj(p), Obj(g)) => (InMerged(p) /\ ~InMerged(g))

\* C3: in a sweep iteration whose candidate overlaps the accepted span of the
\* same tier, the accepted span afterwards is the longer of the two; on equal
\* length the one with the higher score; on equal length and score the earlier one.
C3_SameTierLongerThenScore ==
    (pc = "sweep" /\ lastStep.last # 0
        /\ Overlap(Obj(lastStep.cand), Obj(lastStep.last))
        /\ Obj(lastStep.cand).src = Obj(lastStep.last).src)
    => LET s == Obj(lastStep.cand)
           last == Obj(lastStep.last)
           kept == merged[Len(merged)]
           slen == s.end - s.start
           llen == last.end - last.start
       IN  /\ merged # << >>
           /\ slen > llen => kept = lastStep.cand
           /\ slen < llen => kept = lastStep.last
           /\ (slen = llen /\ s.score > last.score) => kept = lastStep.cand
           /\ (slen = llen /\ s.score < last.score) => kept = lastStep.last
           /\ (slen = llen /\ s.score = last.score) => kept = lastStep.last

\* C3 witness: the candidate of a same-tier overlap was longer than the
\* accepted span and had the lower score, and it replaced the accepted span.
C3_Witness ==
    /\ pc = "sweep" /\ lastStep.last # 0
    /\ Overlap(Obj(lastStep.cand), Obj(lastStep.last))
    /\ Obj(lastStep.cand).src = Obj(lastStep.last).src
    /\ Obj(lastStep.cand).end - Obj(lastStep.cand).start
         > Obj(lastStep.last).end - Obj(lastStep.last).start
    /\ Obj(lastStep.cand).score < Obj(lastStep.last).score
    /\ merged = << lastStep.cand >>

\* A same-tier overlap with equal length and equal score was swept, and the
\* earlier-accepted span stayed.
SameTierFullTie ==
    /\ pc = "sweep" /\ lastStep.last # 0
    /\ Overlap(Obj(lastStep.cand), Obj(lastStep.last))
    /\ Obj(lastStep.cand).src = Obj(lastStep.last).src
    /\ Obj(lastStep.cand).end - Obj(lastStep.cand).start
         = Obj(lastStep.last).end - Obj(lastStep.last).start
    /\ Obj(lastStep.cand).score = Obj(lastStep.last).score
    /\ merged[Len(merged)] = lastStep.last

\* C4: a list S that is non-overlapping (each span ends before the later ones
\* start), passed as the only non-empty source, is returned unchanged.
C4_SingleSourceUnchanged ==
    (pc = "done" /\ (presidio_spans = << >> \/ gliner_spans = << >>) /\ Ordered(Inputs))
    => result.value = Inputs

\* C4, restricted to lists whose spans all have start < end.
SingleSourceUnchangedWhenProper ==
    (pc = "done" /\ (presidio_spans = << >> \/ gliner_spans = << >>)
        /\ Ordered(Inputs) /\ Proper(Inputs))
    => result.value = Inputs

\* C7: a call with a malformed input span (end <= start, or an offset outside
\* [0, len(text)]) ends in a validation error, and no zero-length span is
\* ever in the merged output.
C7_MalformedRejected ==
    pc = "done" =>
        /\ (\E k \in DOMAIN Inputs : Malformed(Inputs[k], Len(text))) => result.raised
        /\ \A j \in DOMAIN result.value : result.value[j].start # result.value[j].end

(***************************************************************************)
(* apply_redactions (pii_service) and redact_ranges (tox_service)          *)
(***************************************************************************)
\* The literal "[REDACTED]" and the placeholder strings of the model.
REDACTED == << "[", "R", "E", "D", "A", "C", "T", "E", "D", "]" >>
TOXIC == << "[", "T", "O", "X", "I", "C", "]" >>
PlaceholderA == << "[", "A", "]" >>

\* s.get("replacement", "[REDACTED]"); has = FALSE: the dict has no such key.
GetReplacement(s) == IF s.has THEN s.replacement ELSE REDACTED

\* sorted(list, key=...) is stable: keys[k] is the key of list[k]; index k is
\* inserted after every index whose key is <= its own.
RECURSIVE InsertByKey(_, _, _)
InsertByKey(keys, sorted, k) ==
    IF sorted = << >> THEN << k >>
    ELSE IF keys[k] < keys[Head(sorted)]
         THEN << k >> \o sorted
         ELSE << Head(sorted) >> \o InsertByKey(keys, Tail(sorted), k)

RECURSIVE StableOrder(_, _)
StableOrder(keys, n) ==
    IF n = 0 THEN << >> ELSE InsertByKey(keys, StableOrder(keys, n - 1), n)

\* sorted(spans, key=lambda x: x["start"])
SortedByStart(list) ==
    LET order == StableOrder([k \in DOMAIN list |-> list[k].start], Len(list))
    IN  [j \in DOMAIN list |-> list[order[j]]]

\* sorted(bad_ranges, key=lambda x: x[0])
SortedByFirst(list) ==
    LET order == StableOrder([k \in DOMAIN list |-> list[k][1]], Len(list))
    IN  [j \in DOMAIN list |-> list[order[j]]]

\* NextCursor that leaves the cursor at the span's start.
NextCursorAtStart(s) == s.start

\* i = s["end"]
NextCursor(s) == s.end

\* The loop of apply_redactions from element k on, with the output so far and the cursor.
RECURSIVE ApplyLoop(_, _, _, _, _)
ApplyLoop(t, list, k, out, i) ==
    IF k > Len(list) THEN out \o PySliceFrom(t, i)
    ELSE ApplyLoop(t, list, k + 1,
                   out \o PySlice(t, i, list[k].start) \o GetReplacement(list[k]),
                   NextCursor(list[k]))

apply_redactions(t, list) ==
    IF list = << >> THEN t
    ELSE ApplyLoop(t, SortedByStart(list), 1, << >>, 0)

\* max(0, min(len(text), x))
Clamp(x, n) == LET m == IF n < x THEN n ELSE x IN IF m < 0 THEN 0 ELSE m

\* BehindCursor that also holds for a range that starts at the cursor.
BehindOrAtCursor(s, i) == s <= i

\* if s < i: continue
BehindCursor(s, i) == s < i

\* The loop of redact_ranges from element k on.
RECURSIVE RangesLoop(_, _, _, _, _, _)
RangesLoop(t, list, token, k, out, i) ==
    IF k > Len(list) THEN out \o PySliceFrom(t, i)
    ELSE LET s == Clamp(list[k][1], Len(t))
             e == Clamp(list[k][2], Len(t))
         IN  IF BehindCursor(s, i)
             THEN RangesLoop(t, list, token, k + 1, out, i)
             ELSE RangesLoop(t, list, token, k + 1, out \o PySlice(t, i, s) \o token, e)

redact_ranges(t, list, token) ==
    IF list = << >> THEN t
    ELSE RangesLoop(t, SortedByFirst(list), token, 1, << >>, 0)

\* Texts of the reconstructors: the first n of these characters, all different.
Letters == << "a", "b", "c", "d", "e", "f", "g", "h" >>
Plain(n) == SubSeq(Letters, 1, n)
Offsets == (0 - 1)..(MaxLen + 1)
Replacements == { [has |-> FALSE, replacement |-> << >>],
                  [has |-> TRUE, replacement |-> PlaceholderA] }
RSpans == { [start |-> st, end |-> en, has |-> r.has, replacement |-> r.replacement] :
              st \in Offsets, en \in Offsets, r \in Replacements }
Ranges == Offsets \X Offsets

InitRedact ==
    /\ pc = "called"
    /\ text \in { Plain(0), Plain(MaxLen) }
    /\ \/ /\ op = "apply_redactions"
          /\ \E list \in SeqsUpTo(RSpans, MaxRSpans) : arg = [spans |-> list]
       \/ /\ op = "redact_ranges"
          /\ \E list \in SeqsUpTo(Ranges, MaxRSpans) :
                arg = [bad_ranges |-> list, token |-> TOXIC]
    /\ presidio_spans = << >>
    /\ gliner_spans = << >>
    /\ spans = << >>
    /\ merged = << >>
    /\ cursor = 0
    /\ lastStep = NoStep
    /\ result = NoResult

\* pii_service/utils.py lines 22-32: the call returns the rewritten text.
ApplyRedactions ==
    /\ pc = "called" /\ op = "apply_redactions"
    /\ result' = [raised |-> FALSE, value |-> apply_redactions(text, arg.spans)]
    /\ pc' = "done"
    /\ UNCHANGED << op, text, presidio_spans, gliner_spans, spans, merged, cursor,
                    lastStep, arg >>

\* tox_service/utils.py lines 46-61: the call returns the rewritten text.
RedactRanges ==
    /\ pc = "called" /\ op = "redact_ranges"
    /\ result' = [raised |-> FALSE,
                  value |-> redact_ranges(text, arg.bad_ranges, arg.token)]
    /\ pc' = "done"
    /\ UNCHANGED << op, text, presidio_spans, gliner_spans, spans, merged, cursor,
                    lastStep, arg >>

NextRedact == ApplyRedactions \/ RedactRanges

SpecRedact == InitRedact /\ [][NextRedact]_vars

(***************************************************************************)
(* Properties of the reconstructors.                                       *)
(***************************************************************************)
\* Every offset of the span lies in [0, n] and start <= end.
InText(s, n) == 0 <= s.start /\ s.start <= s.end /\ s.end <= n
\* Position p lies inside some span of the list.
Covered(list, p) == \E k \in DOMAIN list : list[k].start <= p /\ p < list[k].end

\* The replacements of the spans that start at p, in list order, from element k on.
RECURSIVE ReplacementsAt(_, _, _)
ReplacementsAt(list, p, k) ==
    IF k > Len(list) THEN << >>
    ELSE (IF list[k].start = p THEN GetReplacement(list[k]) ELSE << >>)
         \o ReplacementsAt(list, p, k + 1)

\* Position by position from p on: the replacements of the spans that start
\* here, then the character here unless a span covers it.
RECURSIVE Rewritten(_, _, _)
Rewritten(t, list, p) ==
    IF p > Len(t) THEN << >>
    ELSE ReplacementsAt(list, p, 1)
         \o (IF p < Len(t) /\ ~Covered(list, p) THEN << t[p + 1] >> ELSE << >>)
         \o Rewritten(t, list, p + 1)

\* A non-overlapping span list of a text of length n: given in start order with
\* every span ending before the later ones start, or, in any order, non-empty
\* spans no two of which share a position.
NonOverlappingList(list, n) ==
    /\ \A k \in DOMAIN list : InText(list[k], n)
    /\ \/ Ordered(list)
       \/ (Proper(list) /\ \A i, j \in DOMAIN list :
              i # j => (list[i].end <= list[j].start \/ list[j].end <= list[i].start))

\* C5: on a non-overlapping span list apply_redactions returns, in start order,
\* each untouched slice followed by that span's replacement, then the tail:
\* every character outside the spans stays, in order, and each span
\* contributes exactly its one replacement.
C5_ReplacePreservesOutside ==
    (pc = "done" /\ op = "apply_redactions" /\ NonOverlappingList(arg.spans, Len(text)))
    => result.value = Rewritten(text, arg.spans, 0)

\* C5 witness: two non-overlapping spans, passed out of start order, were each
\* replaced once, in start order, and the character between them was kept.
C5_Witness ==
    /\ pc = "done" /\ op = "apply_redactions"
    /\ Len(text) >= 3
    /\ NonOverlappingList(arg.spans, Len(text))
    /\ Len(arg.spans) = 2
    /\ arg.spans[1].start = 2 /\ arg.spans[1].end = 3 /\ arg.spans[1].has
    /\ arg.spans[2].start = 0 /\ arg.spans[2].end = 1 /\ ~arg.spans[2].has
    /\ result.value = REDACTED \o << text[2] >> \o PlaceholderA \o PySliceFrom(text, 3)

\* C6: a reconstructor given a span with start > end or with an offset outside
\* [0, len(text)] raises a validation error and returns no text.
C6_MalformedSpanRaises ==
    pc = "done" =>
        /\ (op = "apply_redactions"
              /\ \E k \in DOMAIN arg.spans : ~InText(arg.spans[k], Len(text)))
           => result.raised
        /\ (op = "redact_ranges"
              /\ \E k \in DOMAIN arg.bad_ranges :
                    ~InText([start |-> arg.bad_ranges[k][1], end |-> arg.bad_ranges[k][2]],
                            Len(text)))
           => result.raised

(***************************************************************************)
(* detect_and_apply (tox_service/profanity.py)                             *)
(***************************************************************************)
\* Differ that looks for the censor character instead of comparing.
DifferByMask(t, c, j) == c[j + 1] = "*"

\* text[j] != censored[j], for an index both strings have.
Differ(t, c, j) == t[j + 1] # c[j + 1]

\* The inner while loop from j on: the index where the run of differences ends,
\* or -1 when censored[j] is read past the end of censored (IndexError).
RECURSIVE RunEnd(_, _, _)
RunEnd(t, c, j) ==
    IF j < Len(t)
    THEN IF j >= Len(c) THEN 0 - 1
         ELSE IF Differ(t, c, j) THEN RunEnd(t, c, j + 1) ELSE j
    ELSE j

\* The outer while loop from i on, with the spans found so far.
RECURSIVE DiffScan(_, _, _, _)
DiffScan(t, c, i, found) ==
    IF i < Len(t)
    THEN IF i >= Len(c) THEN [raised |-> TRUE, spans |-> << >>]
         ELSE IF Differ(t, c, i)
              THEN LET j == RunEnd(t, c, i)
                   IN  IF j < 0 THEN [raised |-> TRUE, spans |-> << >>]
                       ELSE DiffScan(t, c, j,
                                Append(found, [token |-> PySlice(t, i, j),
                                               start |-> i, end |-> j]))
              ELSE DiffScan(t, c, i + 1, found)
    ELSE [raised |-> FALSE, spans |-> found]

\* The "remove" branch: the text without the spans, from span k on.
RECURSIVE RemoveLoop(_, _, _, _, _)
RemoveLoop(t, found, k, out, i) ==
    IF k > Len(found) THEN out \o PySliceFrom(t, i)
    ELSE RemoveLoop(t, found, k + 1, out \o PySlice(t, i, found[k].start), found[k].end)

\* detect_and_apply with c the string _censor returned for t.
detect_and_apply(t, c, action) ==
    IF c = t THEN [raised |-> FALSE, value |-> [clean |-> t, spans |-> << >>]]
    ELSE LET scan == DiffScan(t, c, 0, << >>)
         IN  IF scan.raised THEN [raised |-> TRUE, value |-> [clean |-> << >>, spans |-> << >>]]
             ELSE IF action = "remove"
                  THEN [raised |-> FALSE,
                        value |-> [clean |-> RemoveLoop(t, scan.spans, 1, << >>, 0),
                                   spans |-> scan.spans]]
                  ELSE [raised |-> FALSE, value |-> [clean |-> c, spans |-> scan.spans]]

DiffChars == { "a", "b", "*" }
ProfanityActions == { "mask", "remove", "other" }

InitDiff ==
    /\ pc = "called"
    /\ op = "detect_and_apply"
    /\ text \in SeqsUpTo(DiffChars, MaxDiffLen)
    /\ \E c \in SeqsUpTo(DiffChars, MaxDiffLen + 1) : \E a \in ProfanityActions :
          arg = [censored |-> c, action |-> a]
    /\ presidio_spans = << >>
    /\ gliner_spans = << >>
    /\ spans = << >>
    /\ merged = << >>
    /\ cursor = 0
    /\ lastStep = NoStep
    /\ result = NoResult

\* Lines 23-56, with arg.censored the string _censor returned at line 29.
DetectAndApply ==
    /\ pc = "called" /\ op = "detect_and_apply"
    /\ result' = detect_and_apply(text, arg.censored, arg.action)
    /\ pc' = "done"
    /\ UNCHANGED << op, text, presidio_spans, gliner_spans, spans, merged, cursor,
                    lastStep, arg >>

NextDiff == DetectAndApply

SpecDiff == InitDiff /\ [][NextDiff]_vars

(***************************************************************************)
(* Properties of detect_and_apply.                                         *)
(***************************************************************************)
\* The 0-based indexes where two strings of the same length differ.
DiffSet(t, c) == { i \in 0..(Len(t) - 1) : t[i + 1] # c[i + 1] }

\* C9: for a censored text as long as the text, the spans are exactly the
\* maximal runs of differing indexes: ascending, disjoint, not adjacent, every
\* index inside a span differs, every index outside all spans agrees, each
\* token is text[start:end]; a single run of three gives one span of length 3.
C9_MaximalDifferingRuns ==
    (pc = "done" /\ op = "detect_and_apply" /\ Len(arg.censored) = Len(text))
    => LET found == result.value.spans
       IN  /\ ~result.raised
           /\ \A k \in DOMAIN found :
                 /\ 0 <= found[k].start /\ found[k].start < found[k].end
                 /\ found[k].end <= Len(text)
                 /\ found[k].token = SubSeq(text, found[k].start + 1, found[k].end)
           /\ \A k \in DOMAIN found :
                 k < Len(found) => found[k].end < found[k + 1].start
           /\ \A i \in 0..(Len(text) - 1) :
                 (\E k \in DOMAIN found : found[k].start <= i /\ i < found[k].end)
                    <=> i \in DiffSet(text, arg.censored)
           /\ \A o \in 0..(Len(text) - 3) :
                 DiffSet(text, arg.censored) = { o, o + 1, o + 2 }
                    => (Len(found) = 1 /\ found[1].start = o /\ found[1].end = o + 3)

\* C9 witness: the strings differ in one run of three characters after an
\* unchanged first character, and the call returned that one span.
C9_Witness ==
    /\ pc = "done" /\ op = "detect_and_apply"
    /\ Len(text) = 4 /\ Len(arg.censored) = 4
    /\ DiffSet(text, arg.censored) = { 1, 2, 3 }
    /\ Len(result.value.spans) = 1
    /\ result.value.spans[1].start = 1 /\ result.value.spans[1].end = 4

\* C10: a censored text whose length differs from the text's ends the call in
\* an error: no spans and no text are returned.
C10_LengthMismatchRaises ==
    (pc = "done" /\ op = "detect_and_apply" /\ Len(arg.censored) # Len(text))
    => result.raised

\* C10, the half the code has: a shorter censored text always ends in an error.
ShorterCensoredRaises ==
    (pc = "done" /\ op = "detect_and_apply" /\ Len(arg.censored) < Len(text))
    => result.raised

(***************************************************************************)
(* sentences_with_offsets, join_preserving_spacing (tox_service/utils.py)  *)
(***************************************************************************)
\* IsSpace that knows the blank only.
IsBlankOnly(ch) == ch = " "

\* str.isspace on the characters used here: a blank or a newline.
IsSpace(ch) == ch \in { " ", "\n" }

\* IsBlank without the strip: the text is empty.
IsEmptyString(t) == t = << >>

\* not text.strip(): the text is empty or all whitespace.
IsBlank(t) == \A k \in DOMAIN t : IsSpace(t[k])

\* Occurs that compares the first character only.
OccursByFirst(t, sub, i) ==
    i + Len(sub) <= Len(t) /\ (sub # << >> => t[i + 1] = sub[1])

\* sub occurs in t at offset i.
Occurs(t, sub, i) == i + Len(sub) <= Len(t) /\ SubSeq(t, i + 1, i + Len(sub)) = sub

\* Find that searches from the start of the text, not from the cursor.
FindFromStart(t, sub, from) ==
    IF \E i \in 0..Len(t) : Occurs(t, sub, i)
    THEN CHOOSE i \in 0..Len(t) :
            Occurs(t, sub, i) /\ \A h \in 0..(i - 1) : ~Occurs(t, sub, h)
    ELSE 0 - 1

\* text.find(sub, from): the least index >= from where sub occurs, else -1.
Find(t, sub, from) ==
    IF \E i \in from..Len(t) : Occurs(t, sub, i)
    THEN CHOOSE i \in from..Len(t) :
            Occurs(t, sub, i) /\ \A h \in from..(i - 1) : ~Occurs(t, sub, h)
    ELSE 0 - 1

\* The for loop of sentences_with_offsets from sentence k on.
RECURSIVE OffsetsLoop(_, _, _, _, _)
OffsetsLoop(t, sentences, k, out, current_pos) ==
    IF k > Len(sentences) THEN out
    ELSE LET found == Find(t, sentences[k], current_pos)
             start == IF found = 0 - 1 THEN current_pos ELSE found
             end == start + Len(sentences[k])
         IN  OffsetsLoop(t, sentences, k + 1,
                         Append(out, << start, end, sentences[k] >>), end)

\* sentences_with_offsets with sentences the list sent_tokenize returned for t.
sentences_with_offsets(t, sentences) ==
    IF IsBlank(t) THEN << >>
    ELSE LET out == OffsetsLoop(t, sentences, 1, << >>, 0)
         IN  IF out = << >> THEN << << 0, Len(t), t >> >> ELSE out

\* "".join(pieces) for the pieces text[s:e] of keep_ranges, from range k on.
RECURSIVE JoinPieces(_, _, _)
JoinPieces(t, keep_ranges, k) ==
    IF k > Len(keep_ranges) THEN << >>
    ELSE PySlice(t, keep_ranges[k][1], keep_ranges[k][2]) \o JoinPieces(t, keep_ranges, k + 1)

\* " ".join(s.split()): runs of whitespace become one space, the ends are trimmed.
\* pending: a word has been written and whitespace was seen after it.
RECURSIVE Collapse(_, _, _, _)
Collapse(s, k, out, pending) ==
    IF k > Len(s) THEN out
    ELSE IF IsSpace(s[k]) THEN Collapse(s, k + 1, out, out # << >>)
    ELSE Collapse(s, k + 1, (IF pending THEN Append(out, " ") ELSE out) \o << s[k] >>, FALSE)

join_preserving_spacing(t, keep_ranges) == Collapse(JoinPieces(t, keep_ranges, 1), 1, << >>, FALSE)

(***************************************************************************)
(* validate (tox_service/app.py)                                           *)
(***************************************************************************)
\* _censor as the censoring detector of a word list: every character of the
\* list is replaced by "*", every other character is kept.
Censor(t, profane) == [k \in DOMAIN t |-> IF t[k] \in profane THEN "*" ELSE t[k]]

\* Lines 130-147: the sentence loop from sentence k on; toxic holds the indexes
\* of the sentences whose score breaches the threshold.
RECURSIVE Classify(_, _, _, _)
Classify(sents, toxic, k, acc) ==
    IF k > Len(sents) THEN acc
    ELSE LET start == sents[k][1]
             end == sents[k][2]
         IN  IF k \in toxic
             THEN Classify(sents, toxic, k + 1,
                    [acc EXCEPT !.bad_ranges = Append(@, << start, end >>),
                                !.flagged = Append(@, [type |-> "toxicity",
                                                       span |-> << start, end >>,
                                                       sentence |-> sents[k][3]])])
             ELSE Classify(sents, toxic, k + 1,
                    [acc EXCEPT !.keep_ranges = Append(@, << start, end >>)])

\* Lines 116-147: the chunks of the text, split into bad and kept ranges.
Toxicity(t, mode, sentences, toxic) ==
    LET none == [bad_ranges |-> << >>, keep_ranges |-> << >>, flagged |-> << >>]
    IN  IF mode = "text"
        THEN Classify(<< << 0, Len(t), t >> >>, toxic, 1, none)
        ELSE LET sents == sentences_with_offsets(t, sentences)
             IN  Classify(IF sents = << >> THEN << << 0, Len(t), t >> >> ELSE sents,
                          toxic, 1, none)

\* Lines 149-160: the text after the toxicity action.
AfterToxicity(t, action, tox) ==
    IF tox.bad_ranges # << >>
    THEN IF action = "remove_all" THEN << >>
         ELSE IF action = "redact" THEN redact_ranges(t, tox.bad_ranges, TOXIC)
         ELSE join_preserving_spacing(t, tox.keep_ranges)
    ELSE t

\* Lines 171-172: the flagged entries of the profanity spans.
ProfanityFlags(found) ==
    [k \in DOMAIN found |->
        [type |-> "profanity", token |-> found[k].token,
         span |-> << found[k].start, found[k].end >>]]

\* Lines 88-200: the response (status, clean_text, flagged), or the error the
\* handler ends in.
validate(t, a) ==
    IF IsBlank(t)
    THEN [raised |-> FALSE,
          value |-> [status |-> "pass", clean_text |-> t, flagged |-> << >>]]
    ELSE LET tox == Toxicity(t, a.mode, a.sentences, a.toxic)
             out_text == AfterToxicity(t, a.action, tox)
             run == a.profanity_enabled /\ out_text # << >>
             prof == IF run
                     THEN detect_and_apply(out_text, Censor(out_text, a.profane),
                                           a.profanity_action)
                     ELSE [raised |-> FALSE,
                           value |-> [clean |-> out_text, spans |-> << >>]]
             changed == tox.bad_ranges # << >> \/ prof.value.spans # << >>
         IN  IF prof.raised
             THEN [raised |-> TRUE,
                   value |-> [status |-> "error", clean_text |-> << >>, flagged |-> << >>]]
             ELSE [raised |-> FALSE,
                   value |-> [status |-> IF changed THEN "fixed" ELSE "pass",
                              clean_text |-> prof.value.clean,
                              flagged |-> tox.flagged \o ProfanityFlags(prof.value.spans)]]

ReqChars == { "a", "b", " " }

\* The strings a tokenizer may return for t: the substrings of t that neither
\* start nor end with whitespace.
SentenceCandidates(t) ==
    { SubSeq(t, i, j) : i \in 1..Len(t), j \in 1..Len(t) } \ { << >> }
SentenceStrings(t) ==
    { s \in SentenceCandidates(t) : ~IsSpace(s[1]) /\ ~IsSpace(s[Len(s)]) }

\* The string without its whitespace.
RECURSIVE Squeeze(_)
Squeeze(s) ==
    IF s = << >> THEN << >>
    ELSE (IF IsSpace(Head(s)) THEN << >> ELSE << Head(s) >>) \o Squeeze(Tail(s))

RECURSIVE Concat(_)
Concat(list) == IF list = << >> THEN << >> ELSE Head(list) \o Concat(Tail(list))

\* The tokenizer's sentences, in order, cover the text up to whitespace.
CoversText(t, sentences) == Squeeze(Concat(sentences)) = Squeeze(t)

InitValidate ==
    /\ pc = "called"
    /\ op = "validate"
    /\ text \in SeqsUpTo(ReqChars, MaxReqLen)
    /\ \E mode \in { "text", "sentence" } :
       \E sentences \in SeqsUpTo(SentenceStrings(text), MaxSents) :
       \E toxic \in SUBSET (1..MaxSents) :
       \E action \in { "remove_sentences", "remove_all", "redact" } :
       \E enabled \in BOOLEAN :
       \E pact \in { "mask", "remove" } :
       \E profane \in SUBSET { "a", "b" } :
          /\ mode = "text" => sentences = << >>
          /\ mode = "sentence" => CoversText(text, sentences)
          /\ ~enabled => (pact = "mask" /\ profane = { })
          /\ arg = [mode |-> mode, sentences |-> sentences, toxic |-> toxic,
                    action |-> action, profanity_enabled |-> enabled,
                    profanity_action |-> pact, profane |-> profane]
    /\ presidio_spans = << >>
    /\ gliner_spans = << >>
    /\ spans = << >>
    /\ merged = << >>
    /\ cursor = 0
    /\ lastStep = NoStep
    /\ result = NoResult

\* The handler of POST /validate answers the request.
Validate ==
    /\ pc = "called" /\ op = "validate"
    /\ result' = validate(text, arg)
    /\ pc' = "done"
    /\ UNCHANGED << op, text, presidio_spans, gliner_spans, spans, merged, cursor,
                    lastStep, arg >>

NextValidate == Validate

SpecValidate == InitValidate /\ [][NextValidate]_vars

(***************************************************************************)
(* Properties of validate.                                                 *)
(***************************************************************************)
\* C8: the offsets of every profanity entry of the response are offsets into
\* the request text: text[span[0]:span[1]] is the entry's token.
C8_OffsetsIntoOriginal ==
    (pc = "done" /\ op = "validate" /\ ~result.raised)
    => \A k \in DOMAIN result.value.flagged :
          LET f == result.value.flagged[k]
          IN  f.type = "profanity" => PySlice(text, f.span[1], f.span[2]) = f.token

\* C8, when the toxicity step changed nothing: the profanity pass then runs on
\* the request text itself.
OffsetsIntoOriginalWhenNothingToxic ==
    (pc = "done" /\ op = "validate" /\ ~result.raised
        /\ \A k \in DOMAIN result.value.flagged : result.value.flagged[k].type # "toxicity")
    => \A k \in DOMAIN result.value.flagged :
          LET f == result.value.flagged[k]
          IN  PySlice(text, f.span[1], f.span[2]) = f.token

(***************************************************************************)
(* sentences_with_offsets called on its own (tox_service/utils.py).        *)
(***************************************************************************)
\* What sent_tokenize may return as one sentence: a non-empty string that
\* neither starts nor ends with whitespace.  It need not occur in the text
\* (the tokenizer may have normalised it).
TokenizerStrings ==
    { s \in SeqsUpTo(ReqChars, MaxSentLen) \ { << >> } :
         ~IsSpace(s[1]) /\ ~IsSpace(s[Len(s)]) }

InitSegment ==
    /\ pc = "called"
    /\ op = "sentences_with_offsets"
    /\ text \in SeqsUpTo(ReqChars, MaxReqLen)
    /\ \E sentences \in SeqsUpTo(TokenizerStrings, MaxSents) :
          arg = [sentences |-> sentences]
    /\ presidio_spans = << >>
    /\ gliner_spans = << >>
    /\ spans = << >>
    /\ merged = << >>
    /\ cursor = 0
    /\ lastStep = NoStep
    /\ result = NoResult

\* sentences_with_offsets(text) returns, sent_tokenize having returned arg.sentences.
SentencesWithOffsets ==
    /\ pc = "called" /\ op = "sentences_with_offsets"
    /\ result' = [raised |-> FALSE, value |-> sentences_with_offsets(text, arg.sentences)]
    /\ pc' = "done"
    /\ UNCHANGED << op, text, presidio_spans, gliner_spans, spans, merged, cursor,
                    lastStep, arg >>

NextSegment == SentencesWithOffsets

SpecSegment == InitSegment /\ [][NextSegment]_vars

(***************************************************************************)
(* Properties of sentences_with_offsets.                                   *)
(***************************************************************************)
Segmented == pc = "done" /\ op = "sentences_with_offsets" /\ ~result.raised

\* Where the search for triple k started: the end of the triple before it.
CursorBefore(out, k) == IF k = 1 THEN 0 ELSE out[k - 1][2]

\* The sentence of triple k occurs in the text at or after the cursor.
FoundVerbatim(out, k) ==
    \E i \in CursorBefore(out, k)..Len(text) :
       /\ i + Len(out[k][3]) <= Len(text)
       /\ \A j \in 1..Len(out[k][3]) : text[i + j] = out[k][3][j]

\* C11: the spans sentences_with_offsets emits are monotonic and non-overlapping,
\* also under the cursor fallback: every span has start <= end and starts at or
\* after the end of the span before it.
C11_SpansMonotonic ==
    Segmented
    => \A k \in DOMAIN result.value :
          /\ result.value[k][1] <= result.value[k][2]
          /\ k > 1 => result.value[k][1] >= result.value[k - 1][2]

\* Two spans were emitted and the second one came from the cursor fallback.
C11_Witness ==
    /\ Segmented
    /\ Len(result.value) = 2
    /\ ~FoundVerbatim(result.value, 2)
    /\ result.value[2][1] = result.value[1][2]
    /\ result.value[1][1] > 0

\* C12 as stated: every emitted triple lies inside the text and its sentence is
\* the slice of the text at its offsets.
C12_TriplesAreSlices ==
    Segmented
    => \A k \in DOMAIN result.value :
          LET tr == result.value[k]
          IN  /\ 0 <= tr[1] /\ tr[1] <= tr[2] /\ tr[2] <= Len(text)
              /\ tr[3] = PySlice(text, tr[1], tr[2])

\* C12, amended: every emitted triple has 0 <= start <= end and
\* end - start = len(sentence); when the sentence occurs in the text at or after
\* the end of the previous span, the triple lies inside the text and its
\* sentence is the slice of the text at its offsets.
C12_FoundTriplesAreSlices ==
    Segmented
    => \A k \in DOMAIN result.value :
          LET tr == result.value[k]
          IN  /\ 0 <= tr[1] /\ tr[1] <= tr[2]
              /\ tr[2] - tr[1] = Len(tr[3])
              /\ FoundVerbatim(result.value, k)
                 => /\ tr[2] <= Len(text)
                    /\ tr[3] = PySlice(text, tr[1], tr[2])

\* "a b" with tokenizer output ["a", "b"] gives [(0, 1, "a"), (2, 3, "b")].
C12_Witness ==
    /\ Segmented
    /\ text = << "a", " ", "b" >>
    /\ arg.sentences = << << "a" >>, << "b" >> >>
    /\ result.value = << << 0, 1, << "a" >> >>, << 2, 3, << "b" >> >> >>

(***************************************************************************)
(* join_preserving_spacing called on its own (tox_service/utils.py).       *)
(***************************************************************************)
JoinChars == { "a", "b", " ", "\n" }

\* The keep ranges of a call: pairs (s, e) with 0 <= s <= e; e may lie beyond
\* the end of a shorter text.
KeepRanges == { r \in (0..MaxReqLen) \X (0..MaxReqLen) : r[1] <= r[2] }

InitJoin ==
    /\ pc = "called"
    /\ op = "join_preserving_spacing"
    /\ text \in SeqsUpTo(JoinChars, MaxReqLen)
    /\ \E list \in SeqsUpTo(KeepRanges, MaxRSpans) : arg = [keep_ranges |-> list]
    /\ presidio_spans = << >>
    /\ gliner_spans = << >>
    /\ spans = << >>
    /\ merged = << >>
    /\ cursor = 0
    /\ lastStep = NoStep
    /\ result = NoResult

\* tox_service/utils.py lines 38-44: the call returns the joined text.
JoinPreservingSpacing ==
    /\ pc = "called" /\ op = "join_preserving_spacing"
    /\ result' = [raised |-> FALSE,
                  value |-> join_preserving_spacing(text, arg.keep_ranges)]
    /\ pc' = "done"
    /\ UNCHANGED << op, text, presidio_spans, gliner_spans, spans, merged, cursor,
                    lastStep, arg >>

NextJoin == JoinPreservingSpacing

SpecJoin == InitJoin /\ [][NextJoin]_vars

(***************************************************************************)
(* The components called with an empty text or with no spans.              *)
(***************************************************************************)
Blanks == { " ", "\n" }

InitEmpty ==
    /\ pc = "called"
    /\ \/ /\ op = "merge_spans"
          /\ text \in { << >>, TextOfLen(MaxPos) }
          /\ arg = NoArg
       \/ /\ op = "apply_redactions"
          /\ \E n \in 0..MaxLen : text = Plain(n)
          /\ arg = [spans |-> << >>]
       \/ /\ op = "redact_ranges"
          /\ \E n \in 0..MaxLen : text = Plain(n)
          /\ arg = [bad_ranges |-> << >>, token |-> TOXIC]
       \/ /\ op = "sentences_with_offsets"
          /\ text \in SeqsUpTo(Blanks, MaxReqLen)
          /\ \E sentences \in SeqsUpTo(TokenizerStrings, MaxSents) :
                arg = [sentences |-> sentences]
       \/ /\ op = "detect_and_apply"
          /\ text = << >>
          /\ \E a \in ProfanityActions : arg = [censored |-> << >>, action |-> a]
       \/ /\ op = "join_preserving_spacing"
          /\ text = << >>
          /\ \E list \in SeqsUpTo(KeepRanges, MaxRSpans) : arg = [keep_ranges |-> list]
    /\ presidio_spans = << >>
    /\ gliner_spans = << >>
    /\ spans = << >>
    /\ merged = << >>
    /\ cursor = 0
    /\ lastStep = NoStep
    /\ result = NoResult

\* With no spans the sweep of merge_spans has no iteration.
NextEmpty ==
    \/ MergeBegin
    \/ MergeReturn
    \/ ApplyRedactions
    \/ RedactRanges
    \/ SentencesWithOffsets
    \/ DetectAndApply
    \/ JoinPreservingSpacing

SpecEmpty == InitEmpty /\ [][NextEmpty]_vars

\* C13: a component given an empty text or no spans returns an empty or
\* pass-through result and does not raise: merge_spans with no spans returns [],
\* apply_redactions and redact_ranges with no spans return the text,
\* sentences_with_offsets returns [] for an empty or whitespace-only text,
\* detect_and_apply returns the empty text with no spans, and
\* join_preserving_spacing returns the empty string.
C13_EmptyInputPassThrough ==
    pc = "done"
    => /\ ~result.raised
       /\ (op = "merge_spans" /\ spans = << >>) => result.value = << >>
       /\ (op = "apply_redactions" /\ arg.spans = << >>) => result.value = text
       /\ (op = "redact_ranges" /\ arg.bad_ranges = << >>) => result.value = text
       /\ (op = "sentences_with_offsets" /\ \A k \in DOMAIN text : text[k] \in Blanks)
          => result.value = << >>
       /\ (op = "detect_and_apply" /\ text = << >> /\ arg.censored = << >>)
          => (result.value.clean = << >> /\ result.value.spans = << >>)
       /\ (op = "join_preserving_spacing" /\ text = << >>) => result.value = << >>

\* sentences_with_offsets returned for a whitespace-only text although the
\* tokenizer had sentences for it.
C13_Witness ==
    /\ pc = "done"
    /\ op = "sentences_with_offsets"
    /\ text = << " ", "\n" >>
    /\ arg.sentences # << >>
    /\ result = [raised |-> FALSE, value |-> << >>]

(***************************************************************************)
(* Properties of redact_ranges.                                            *)
(***************************************************************************)
\* Every range of the list lies in the text: 0 <= s <= e <= n.
RangesInText(list, n) ==
    \A k \in DOMAIN list : 0 <= list[k][1] /\ list[k][1] <= list[k][2] /\ list[k][2] <= n

\* The ranges of a list in start order that are applied, from element k on:
\* those that do not start before the end of the latest applied one (i).
RECURSIVE AppliedRanges(_, _, _)
AppliedRanges(list, k, i) ==
    IF k > Len(list) THEN << >>
    ELSE IF list[k][1] < i THEN AppliedRanges(list, k + 1, i)
    ELSE << list[k] >> \o AppliedRanges(list, k + 1, list[k][2])

\* One token for every range of the list that starts at p.
RECURSIVE TokensAt(_, _, _, _)
TokensAt(list, token, p, k) ==
    IF k > Len(list) THEN << >>
    ELSE (IF list[k][1] = p THEN token ELSE << >>) \o TokensAt(list, token, p, k + 1)

\* The text from position p on with every range of the list replaced by the
\* token and every character outside the ranges kept.
RECURSIVE RangesRewritten(_, _, _, _)
RangesRewritten(t, list, token, p) ==
    IF p > Len(t) THEN << >>
    ELSE TokensAt(list, token, p, 1)
         \o (IF p < Len(t) /\ \A k \in DOMAIN list : ~(list[k][1] <= p /\ p < list[k][2])
             THEN << t[p + 1] >> ELSE << >>)
         \o RangesRewritten(t, list, token, p + 1)

\* C14: for ranges that lie in the text, redact_ranges sweeps them in start
\* order, skips every range that starts before the end of the latest applied
\* one, writes the token in place of every applied range and keeps every
\* character outside the applied ranges, in order; the output holds as many
\* tokens as ranges were applied.
C14_RangesSweep ==
    (pc = "done" /\ op = "redact_ranges" /\ RangesInText(arg.bad_ranges, Len(text)))
    => LET applied == AppliedRanges(SortedByFirst(arg.bad_ranges), 1, 0)
       IN  /\ ~result.raised
           /\ result.value = RangesRewritten(text, applied, arg.token, 0)
           /\ Cardinality({ k \in DOMAIN result.value : result.value[k] = "[" })
                 = Len(applied)

\* The range (1, 3) was given first and skipped, because (0, 2) was applied
\* before it and ends behind its start.
C14_Witness ==
    /\ pc = "done"
    /\ op = "redact_ranges"
    /\ Len(text) = MaxLen
    /\ arg.bad_ranges = << << 1, 3 >>, << 0, 2 >> >>
    /\ result.value = arg.token \o PySliceFrom(text, 2)

(***************************************************************************)
(* Properties of join_preserving_spacing.                                  *)
(***************************************************************************)
\* The kept substrings of the text, concatenated in the given order.
KeptText(t, keep_ranges) ==
    Concat([k \in DOMAIN keep_ranges |-> PySlice(t, keep_ranges[k][1], keep_ranges[k][2])])

\* The indexes of the non-whitespace characters of s, ascending, from index k on.
RECURSIVE WordIndexes(_, _)
WordIndexes(s, k) ==
    IF k > Len(s) THEN << >>
    ELSE (IF s[k] \in Blanks THEN << >> ELSE << k >>) \o WordIndexes(s, k + 1)

\* C15: the output of join_preserving_spacing is the concatenation of the kept
\* substrings with every run of whitespace collapsed to one space and the ends
\* trimmed: it neither starts nor ends with whitespace, its only whitespace is
\* single spaces, its non-whitespace characters are those of the kept substrings
\* in order, two of them are separated in the output exactly when whitespace
\* separates them in the concatenation, and normalizing the output again
\* returns it unchanged.
C15_JoinCollapsesWhitespace ==
    (pc = "done" /\ op = "join_preserving_spacing")
    => LET out == result.value
           cat == KeptText(text, arg.keep_ranges)
           io == WordIndexes(out, 1)
           ic == WordIndexes(cat, 1)
       IN  /\ ~result.raised
           /\ out # << >> => (out[1] \notin Blanks /\ out[Len(out)] \notin Blanks)
           /\ \A k \in DOMAIN out : out[k] \in Blanks => out[k] = " "
           /\ \A k \in 1..(Len(out) - 1) : ~(out[k] \in Blanks /\ out[k + 1] \in Blanks)
           /\ Len(io) = Len(ic)
           /\ \A i \in DOMAIN io : out[io[i]] = cat[ic[i]]
           /\ \A i \in 1..(Len(io) - 1) : (io[i + 1] = io[i] + 1) <=> (ic[i + 1] = ic[i] + 1)
           /\ join_preserving_spacing(out, << << 0, Len(out) >> >>) = out

\* "a\nb" with the ranges (0, 2) and (1, 3): the pieces "a\n" and "\nb" give "a b".
C15_Witness ==
    /\ pc = "done"
    /\ op = "join_preserving_spacing"
    /\ text = << "a", "\n", "b" >>
    /\ arg.keep_ranges = << << 0, 2 >>, << 1, 3 >> >>
    /\ result.value = << "a", " ", "b" >>

(***************************************************************************)
(* Properties of merge_spans: the source tag and the discarded spans.      *)
(***************************************************************************)
\* No dict of the list has the _src key.
NoSourceTag(list) == \A k \in DOMAIN list : list[k].src = "none"

\* C16: after merge_spans has returned no span carries the _src key, neither
\* the returned spans nor the input spans that the sweep discarded.
C16_SourceTagTransient ==
    (pc = "done" /\ op = "merge_spans")
    => /\ NoSourceTag(result.value)
       /\ NoSourceTag(presidio_spans)
       /\ NoSourceTag(gliner_spans)

\* The returned spans carry no _src key (line 67 pops it from the accepted ones).
ReturnedSpansUntagged ==
    (pc = "done" /\ op = "merge_spans") => NoSourceTag(result.value)

\* C17: when every input span has start < end and neither list overlaps
\* itself, every input span that is not in the returned list shares a
\* position with some span that is.
C17_DiscardedOverlapsSurvivor ==
    (pc = "done" /\ op = "merge_spans" /\ Proper(Inputs)
        /\ InternallyDisjoint(presidio_spans) /\ InternallyDisjoint(gliner_spans))
    => \A k \in PresidioRefs \cup GlinerRefs :
          ~InMerged(k) => \E j \in DOMAIN merged : Intersects(Obj(k), Obj(merged[j]))

\* Two spans were returned and a third one was discarded: it was compared with
\* the first accepted span only, and shares a position with both survivors.
C17_Witness ==
    /\ pc = "done"
    /\ op = "merge_spans"
    /\ Proper(Inputs)
    /\ InternallyDisjoint(presidio_spans)
    /\ InternallyDisjoint(gliner_spans)
    /\ Len(merged) = 2
    /\ \E k \in GlinerRefs :
          /\ ~InMerged(k)
          /\ \A j \in DOMAIN merged : Intersects(Obj(k), Obj(merged[j]))

====
